---------------------------- MODULE Spec2Model ----------------------------
(***************************************************************************)
(* State-machine model of the CoinLedger dashboard (src/src/App.jsx):      *)
(* the search/suggestion engine with keyboard navigation, the market-data  *)
(* refresh lifecycle (effect + interval + fetchCryptoData) and the insight *)
(* retrieval (getCryptoInsight).                                           *)
(*                                                                         *)
(* Strings that the code inspects (asset names, symbols, the search term)  *)
(* are sequences of one-character strings; opaque strings (API keys,       *)
(* messages) are TLA+ strings.                                             *)
(***************************************************************************)
EXTENDS Integers, Sequences, FiniteSets, TLC

(***************************************************************************)
(* Bounds of the model                                                     *)
(***************************************************************************)
\* fetchCryptoData calls ever started (the first one is started by Init)
MaxFetches == 3
\* setInterval calls ever made (the first one is made by Init)
MaxTimers == 3
\* getCryptoInsight network calls ever started
MaxInsightReqs == 2
\* the time up to which the clock is followed, in seconds
MaxClock == 130
\* the most seconds that pass in one step of the clock
ClockStep == 25

(***************************************************************************)
(* Program constants                                                       *)
(***************************************************************************)
\* .slice(0, 8): limit to 8 suggestions
MaxSuggestions == 8
\* fallbackInsights.length
NumFallbacks == 4
\* setInterval(fetchCryptoData, 60000): the period, in seconds
RefreshPeriod == 60

\* null / undefined is the empty tuple, a present value v is <<v>>
Null == << >>
Some(v) == <<v>>

(***************************************************************************)
(* String helpers: String.prototype.toLowerCase / includes                 *)
(***************************************************************************)
\* toLowerCase on one character, over the letters the model's strings use
LowerChar(c) ==
    CASE c = "B" -> "b" [] c = "C" -> "c" [] c = "D" -> "d" [] c = "E" -> "e"
      [] c = "G" -> "g" [] c = "H" -> "h" [] c = "I" -> "i" [] c = "O" -> "o"
      [] c = "S" -> "s" [] c = "T" -> "t" [] c = "V" -> "v"
      [] OTHER -> c

ToLowerCase(s) == [i \in 1..Len(s) |-> LowerChar(s[i])]

Includes(s, q) ==
    \E off \in 0..(Len(s) - Len(q)) : SubSeq(s, off + 1, off + Len(q)) = q

Min(a, b) == IF a < b THEN a ELSE b

\* Array.prototype.slice(from, to) with 0 <= from <= to
Slice(s, from, to) == SubSeq(s, from + 1, Min(to, Len(s)))

(***************************************************************************)
(* Assets and the payloads the market-data service may answer with         *)
(***************************************************************************)
Asset(i, n, s) == [id |-> i, name |-> n, symbol |-> s]

Bitcoin     == Asset(1, <<"B","i","t","c","o","i","n">>, <<"b","t","c">>)
Ethereum    == Asset(2, <<"E","t","h","e","r","e","u","m">>, <<"e","t","h">>)
BitcoinCash == Asset(3, <<"B","i","t","c","o","i","n"," ","C","a","s","h">>, <<"b","c","h">>)
BitcoinSV   == Asset(4, <<"B","i","t","c","o","i","n"," ","S","V">>, <<"b","s","v">>)
BitTorrent  == Asset(5, <<"B","i","t","T","o","r","r","e","n","t">>, <<"b","t","t">>)
Bittensor   == Asset(6, <<"B","i","t","t","e","n","s","o","r">>, <<"t","a","o">>)
Bitget      == Asset(7, <<"B","i","t","g","e","t">>, <<"b","g","b">>)
BitGold     == Asset(8, <<"B","i","t","c","o","i","n"," ","G","o","l","d">>, <<"b","t","g">>)
BitDAO      == Asset(9, <<"B","i","t","d","a","o">>, <<"b","i","t">>)
Orbit       == Asset(10, <<"O","r","b","i","t">>, <<"o","r","b">>)
Habit       == Asset(11, <<"h","a","B","I","T">>, <<"H","B","T">>)

PayloadPair  == <<Bitcoin, BitcoinCash>>
PayloadOne   == <<Ethereum, Bitcoin>>
PayloadMany  == <<Bitcoin, Ethereum, BitcoinCash, BitcoinSV, BitTorrent, Bittensor,
                  Bitget, BitGold, BitDAO, Orbit, Habit>>
Payloads == { << >>, PayloadPair, PayloadOne, PayloadMany }

\* what the user may type into the search box
Queries == { << >>, <<"b","i","t">>, <<"b","c","h">>, <<"B","I","T">>, <<"e","t","h">>, <<"z">> }

\* what may be stored as / typed into the key fields
ApiKeys == { "", "cg1", "cg2" }
GeminiKeys == { "", "gm1" }


(***************************************************************************)
(* State                                                                   *)
(***************************************************************************)
VARIABLES
    cryptos,                 \* useState([]): the asset list
    searchTerm,              \* useState(''): the query
    loading,                 \* useState(true)
    error,                   \* useState(null)
    apiKey,                  \* useState(localStorage coinledger_apiKey || '')
    geminiApiKey,            \* useState(localStorage coinledger_geminiApiKey || '')
    llmInsight,              \* useState(null): [name, text] or Null
    isInsightLoading,        \* useState(false)
    insightError,            \* useState(null)
    showApiKeyInput,         \* useState(false)
    showSuggestions,         \* useState(false)
    selectedSuggestionIndex, \* useState(-1)
    localStorage,            \* the two named string slots
    mounted,                 \* the App component is mounted (dashboard active)
    inputFocused,            \* the search input has the keyboard focus
    timers,                  \* the intervals scheduled by setInterval: [id, key]
    timerCount,              \* setInterval calls so far; the newest id
    clearCalls,              \* clearInterval calls per interval id
    fetches,                 \* fetchCryptoData calls awaiting fetch(): [id, key]
    fetchCount,              \* fetchCryptoData calls so far; the newest id
    insightReqs,             \* getCryptoInsight calls awaiting fetch(): [id, name]
    insightCount,            \* getCryptoInsight network calls so far
    lastInsightName,         \* the cryptoName of the last getCryptoInsight call (history)
    burstResolved,           \* answers arrived since no insight request was in flight (history)
    lastEvent,               \* the handler that ran last (history)
    lastArrival,             \* what the last answered fetchCryptoData call got (history)
    clock,                   \* the time, in seconds since the component mounted
    due                      \* the time at which the newest interval fires next

searchVars  == <<searchTerm, showSuggestions, selectedSuggestionIndex, inputFocused>>
fetchVars   == <<cryptos, loading, error, fetches, fetchCount, lastArrival>>
timerVars   == <<timers, timerCount, clearCalls, due>>
keyVars     == <<apiKey, geminiApiKey, localStorage, showApiKeyInput>>
insightVars == <<llmInsight, isInsightLoading, insightError, insightReqs, insightCount,
                 lastInsightName, burstResolved>>
vars == <<searchVars, fetchVars, timerVars, keyVars, insightVars, mounted, lastEvent, clock>>

(***************************************************************************)
(* SearchIndex: the two memoized derivations                               *)
(***************************************************************************)
\* crypto.name.toLowerCase().includes(q) || crypto.symbol.toLowerCase().includes(q)
MatchesTerm(crypto, lowerCaseSearchTerm) ==
    \/ Includes(ToLowerCase(crypto.name), lowerCaseSearchTerm)
    \/ Includes(ToLowerCase(crypto.symbol), lowerCaseSearchTerm)

\* mutant: the symbol is not searched
FilterCryptosNameOnly(list, term) ==
    IF term = << >>
    THEN list
    ELSE SelectSeq(list, LAMBDA c : Includes(ToLowerCase(c.name), ToLowerCase(term)))

\* the useMemo body of filteredCryptos, as a function of its dependencies
FilterCryptos(list, term) ==
    IF term = << >>
    THEN list
    ELSE SelectSeq(list, LAMBDA c : MatchesTerm(c, ToLowerCase(term)))

\* mutant: the slice keeps one entry too many
SuggestCryptosOneMore(list, term) ==
    IF term = << >> \/ Len(term) < 1
    THEN << >>
    ELSE Slice(SelectSeq(list, LAMBDA c :
                   \/ Includes(ToLowerCase(c.name), ToLowerCase(term))
                   \/ Includes(ToLowerCase(c.symbol), ToLowerCase(term))),
               0, MaxSuggestions + 1)

\* the useMemo body of searchSuggestions, as a function of its dependencies
SuggestCryptos(list, term) ==
    IF term = << >> \/ Len(term) < 1
    THEN << >>
    ELSE Slice(SelectSeq(list, LAMBDA c :
                   \/ Includes(ToLowerCase(c.name), ToLowerCase(term))
                   \/ Includes(ToLowerCase(c.symbol), ToLowerCase(term))),
               0, MaxSuggestions)

filteredCryptos == FilterCryptos(cryptos, searchTerm)
searchSuggestions == SuggestCryptos(cryptos, searchTerm)

\* the suggestion list is in the DOM (suggestionsRef.current is set)
SuggestionsRendered == showSuggestions /\ Len(searchSuggestions) > 0

(***************************************************************************)
(* React: a state setter of a component that has unmounted does nothing    *)
(***************************************************************************)
\* mutant: the update is applied whether or not the component is mounted
SetStateAlways(old, new) == new

SetState(old, new) == IF mounted THEN new ELSE old

(***************************************************************************)
(* Initial state: after the first render and its effects                   *)
(***************************************************************************)
\* localStorage.getItem(slot) || ''
StoredKey(slot) == IF slot = Null THEN "" ELSE slot[1]

Init ==
    /\ localStorage \in [coinledger_apiKey : {Null, Some("cg1")},
                         coinledger_geminiApiKey : {Null, Some("gm1")}]
    /\ apiKey = StoredKey(localStorage.coinledger_apiKey)
    /\ geminiApiKey = StoredKey(localStorage.coinledger_geminiApiKey)
    /\ cryptos = << >>
    /\ searchTerm = << >>
    /\ loading = TRUE
    /\ error = Null
    /\ llmInsight = Null
    /\ isInsightLoading = FALSE
    /\ insightError = Null
    /\ showApiKeyInput = FALSE
    /\ showSuggestions = FALSE
    /\ selectedSuggestionIndex = -1
    /\ mounted = TRUE
    /\ inputFocused = FALSE
    \* the refresh effect has run once: fetchCryptoData(); setInterval(...)
    /\ fetches = {[id |-> 1, key |-> apiKey]}
    /\ fetchCount = 1
    /\ timers = {[id |-> 1, key |-> apiKey]}
    /\ timerCount = 1
    /\ clearCalls = [i \in 1..MaxTimers |-> 0]
    /\ insightReqs = {}
    /\ insightCount = 0
    /\ lastInsightName = << >>
    /\ burstResolved = 0
    /\ lastEvent = "mount"
    /\ lastArrival = Null
    /\ clock = 0
    /\ due = RefreshPeriod

(***************************************************************************)
(* SuggestionNavigator: the search input's handlers                        *)
(***************************************************************************)
\* mutant: the highlighted index survives the edit
handleSearchChangeKeepIndex(value) ==
    /\ mounted /\ inputFocused
    /\ value # searchTerm
    /\ searchTerm' = value
    /\ showSuggestions' = (Len(value) > 0)
    /\ lastEvent' = "queryChanged" /\ UNCHANGED clock
    /\ UNCHANGED <<selectedSuggestionIndex, inputFocused,
                   fetchVars, timerVars, keyVars, insightVars, mounted>>

handleSearchChange(value) ==
    /\ mounted /\ inputFocused
    /\ value # searchTerm
    /\ searchTerm' = value
    /\ showSuggestions' = (Len(value) > 0)
    /\ selectedSuggestionIndex' = -1
    /\ lastEvent' = "queryChanged" /\ UNCHANGED clock
    /\ UNCHANGED <<inputFocused, fetchVars, timerVars, keyVars, insightVars, mounted>>

\* onFocus={() => searchTerm.length > 0 && setShowSuggestions(true)}
onFocus ==
    /\ mounted /\ ~inputFocused
    /\ inputFocused' = TRUE
    /\ showSuggestions' = IF Len(searchTerm) > 0 THEN TRUE ELSE showSuggestions
    /\ lastEvent' = "focus" /\ UNCHANGED clock
    /\ UNCHANGED <<searchTerm, selectedSuggestionIndex,
                   fetchVars, timerVars, keyVars, insightVars, mounted>>

\* mutant: the comparison is off by one
ArrowDownIndexOffByOne(prev, len) == IF prev < len THEN prev + 1 ELSE prev

\* setSelectedSuggestionIndex(prev => prev < searchSuggestions.length - 1 ? prev + 1 : prev)
ArrowDownIndex(prev, len) == IF prev < len - 1 THEN prev + 1 ELSE prev

\* setSelectedSuggestionIndex(prev => prev > 0 ? prev - 1 : -1)
ArrowUpIndex(prev) == IF prev > 0 THEN prev - 1 ELSE -1

\* mutant: the suggestions stay open after a selection
selectSuggestionStayOpen(crypto) ==
    /\ searchTerm' = crypto.name
    /\ selectedSuggestionIndex' = -1
    /\ inputFocused' = FALSE
    /\ UNCHANGED showSuggestions

\* the state after selectSuggestion(crypto)
selectSuggestion(crypto) ==
    /\ searchTerm' = crypto.name
    /\ showSuggestions' = FALSE
    /\ selectedSuggestionIndex' = -1
    /\ inputFocused' = FALSE

handleKeyDown(key) ==
    /\ mounted /\ inputFocused
    /\ lastEvent' = key /\ UNCHANGED clock
    /\ UNCHANGED <<fetchVars, timerVars, keyVars, insightVars, mounted>>
    /\ IF ~showSuggestions
       THEN UNCHANGED searchVars
       ELSE CASE key = "ArrowDown" ->
                   /\ selectedSuggestionIndex' =
                        ArrowDownIndex(selectedSuggestionIndex, Len(searchSuggestions))
                   /\ UNCHANGED <<searchTerm, showSuggestions, inputFocused>>
              [] key = "ArrowUp" ->
                   /\ selectedSuggestionIndex' = ArrowUpIndex(selectedSuggestionIndex)
                   /\ UNCHANGED <<searchTerm, showSuggestions, inputFocused>>
              [] key = "Enter" ->
                   LET suggestions == searchSuggestions
                   IN  IF /\ selectedSuggestionIndex >= 0
                          /\ selectedSuggestionIndex < Len(suggestions)
                       THEN selectSuggestion(suggestions[selectedSuggestionIndex + 1])
                       ELSE UNCHANGED searchVars
              [] key = "Escape" ->
                   /\ showSuggestions' = FALSE
                   /\ selectedSuggestionIndex' = -1
                   /\ inputFocused' = FALSE
                   /\ UNCHANGED searchTerm

\* onClick={() => selectSuggestion(crypto)} on a rendered suggestion
clickSuggestion(index) ==
    /\ mounted /\ showSuggestions
    /\ LET suggestions == searchSuggestions
       IN  /\ index \in 0..(Len(suggestions) - 1)
           /\ selectSuggestion(suggestions[index + 1])
    /\ lastEvent' = "clickSuggestion" /\ UNCHANGED clock
    /\ UNCHANGED <<fetchVars, timerVars, keyVars, insightVars, mounted>>

\* onMouseEnter={() => setSelectedSuggestionIndex(index)} on a rendered suggestion
hoverSuggestion(index) ==
    /\ mounted /\ showSuggestions
    /\ index \in 0..(Len(searchSuggestions) - 1)
    /\ selectedSuggestionIndex' = index
    /\ lastEvent' = "hover" /\ UNCHANGED clock
    /\ UNCHANGED <<searchTerm, showSuggestions, inputFocused,
                   fetchVars, timerVars, keyVars, insightVars, mounted>>

\* mutant: the dismissal hides the list and leaves the highlight where it was
handleClickOutsideKeepIndex ==
    /\ mounted
    /\ IF SuggestionsRendered
       THEN /\ showSuggestions' = FALSE
            /\ UNCHANGED selectedSuggestionIndex
       ELSE UNCHANGED <<showSuggestions, selectedSuggestionIndex>>
    /\ inputFocused' = FALSE
    /\ lastEvent' = "dismiss" /\ UNCHANGED clock
    /\ UNCHANGED <<searchTerm, fetchVars, timerVars, keyVars, insightVars, mounted>>

\* mousedown outside the search input and outside the suggestion list
handleClickOutside ==
    /\ mounted
    /\ IF SuggestionsRendered
       THEN /\ showSuggestions' = FALSE
            /\ selectedSuggestionIndex' = -1
       ELSE UNCHANGED <<showSuggestions, selectedSuggestionIndex>>
    /\ inputFocused' = FALSE
    /\ lastEvent' = "dismiss" /\ UNCHANGED clock
    /\ UNCHANGED <<searchTerm, fetchVars, timerVars, keyVars, insightVars, mounted>>


(***************************************************************************)
(* MarketDataClient: fetchCryptoData                                       *)
(***************************************************************************)
\* What the market-data service may answer. rejects: fetch() itself fails;
\* parses: response.json() succeeds; errorField/messageField: the "error" and
\* "message" members of a parsed error body.
Response(rej, ok, st, stText, parses, data, e, m) ==
    [rejects |-> rej, ok |-> ok, status |-> st, statusText |-> stText,
     parses |-> parses, data |-> data, errorField |-> e, messageField |-> m]

RejectedResponse == Response(TRUE, FALSE, "0", "", FALSE, << >>, Null, Null)
OkResponse(data) == Response(FALSE, TRUE, "200", "OK", TRUE, data, Null, Null)
OkUnparseable    == Response(FALSE, TRUE, "200", "OK", FALSE, << >>, Null, Null)
ErrorResponse(parses, e, m) ==
    Response(FALSE, FALSE, "429", "Too Many Requests", parses, << >>, e, m)

SuccessResponses == { OkResponse(p) : p \in Payloads }
FailureResponses ==
    { RejectedResponse, OkUnparseable,
      ErrorResponse(FALSE, Null, Null),
      ErrorResponse(TRUE, Some("rate limited"), Null),
      ErrorResponse(TRUE, Null, Null) }
FetchResponses == SuccessResponses \cup FailureResponses

\* the failing answers told apart by the error message: an error body with a
\* "message" member, with both members, with an empty "error" member, with
\* neither; a body that is not JSON, with a status text and (HTTP/2) without
ErrorMessageResponses ==
    { RejectedResponse, OkUnparseable,
      ErrorResponse(TRUE, Some("rate limited"), Null),
      ErrorResponse(TRUE, Null, Some("invalid key")),
      ErrorResponse(TRUE, Some("rate limited"), Some("invalid key")),
      ErrorResponse(TRUE, Some(""), Some("invalid key")),
      ErrorResponse(TRUE, Null, Null),
      ErrorResponse(FALSE, Null, Null),
      Response(FALSE, FALSE, "503", "", FALSE, << >>, Null, Null) }

\* JavaScript truthiness of an optional string
Truthy(opt) == opt # Null /\ opt[1] # ""

\* a || b for optional strings
OrElse(a, b) == IF Truthy(a) THEN a ELSE b

\* mutant: the catch of response.json() yields an empty object
ErrorDataNoStatusText(resp) ==
    IF resp.parses
    THEN [error |-> resp.errorField, message |-> resp.messageField]
    ELSE [error |-> Null, message |-> Null]

\* const errorData = await response.json().catch(() => ({ message: response.statusText }))
ErrorData(resp) ==
    IF resp.parses
    THEN [error |-> resp.errorField, message |-> resp.messageField]
    ELSE [error |-> Null, message |-> Some(resp.statusText)]

\* `HTTP error! Status: ${response.status} - ${errorData.error || errorData.message || 'Unknown error'}`
HttpErrorMessage(resp) ==
    <<"HTTP error! Status: ", resp.status, " - ",
      OrElse(OrElse(ErrorData(resp).error, ErrorData(resp).message),
             Some("Unknown error"))[1]>>

\* the message of the exception the try block throws on resp, Null when it throws none
ThrownMessage(resp) ==
    IF resp.rejects THEN Some(<<"Failed to fetch">>)
    ELSE IF ~resp.ok THEN Some(HttpErrorMessage(resp))
    ELSE IF ~resp.parses THEN Some(<<"Unexpected end of JSON input">>)
    ELSE Null

\* `Failed to load cryptocurrency data: ${err.message}. Please check your API key or try again later.`
FetchErrorText(message) ==
    <<"Failed to load cryptocurrency data: ">> \o message
        \o <<". Please check your API key or try again later.">>

\* fetchCryptoData up to `await fetch(apiUrl)`; key is the apiKey of its closure
fetchCryptoData(key) ==
    /\ fetchCount < MaxFetches
    /\ loading' = SetState(loading, TRUE)
    /\ error' = SetState(error, Null)
    /\ fetchCount' = fetchCount + 1
    /\ fetches' = fetches \cup {[id |-> fetchCount + 1, key |-> key]}
    /\ UNCHANGED <<cryptos, lastArrival>>

\* history: the answered call f got resp. succeeded: the try block ran to its
\* end; late: f was started under another key than the current one and a call
\* started after f has been answered before it
Arrival(f, resp) ==
    [succeeded |-> ThrownMessage(resp) = Null,
     data |-> resp.data,
     late |-> /\ f.key # apiKey
              /\ \E i \in (f.id + 1)..fetchCount : \A g \in fetches : g.id # i]

\* mutant: the answer to a call made under a key that has since changed is dropped
fetchArrivesDropStale(f, resp) ==
    /\ f \in fetches
    /\ fetches' = fetches \ {f}
    /\ IF ThrownMessage(resp) = Null
       THEN /\ cryptos' = IF f.key = apiKey THEN SetState(cryptos, resp.data) ELSE cryptos
            /\ UNCHANGED error
       ELSE /\ error' = SetState(error, Some(FetchErrorText(ThrownMessage(resp)[1])))
            /\ UNCHANGED cryptos
    /\ loading' = SetState(loading, FALSE)
    /\ lastArrival' = Some(Arrival(f, resp))
    /\ lastEvent' = "fetchArrives" /\ UNCHANGED clock
    /\ UNCHANGED <<fetchCount, searchVars, timerVars, keyVars, insightVars, mounted>>

\* mutant: a failed call is retried at once
fetchArrivesRetry(f, resp) ==
    /\ f \in fetches
    /\ IF ThrownMessage(resp) = Null
       THEN /\ cryptos' = SetState(cryptos, resp.data)
            /\ fetches' = fetches \ {f}
            /\ UNCHANGED <<error, fetchCount>>
       ELSE /\ error' = SetState(error, Some(FetchErrorText(ThrownMessage(resp)[1])))
            /\ fetchCount < MaxFetches
            /\ fetchCount' = fetchCount + 1
            /\ fetches' = (fetches \ {f}) \cup {[id |-> fetchCount + 1, key |-> f.key]}
            /\ UNCHANGED cryptos
    /\ loading' = SetState(loading, FALSE)
    /\ lastArrival' = Some(Arrival(f, resp))
    /\ lastEvent' = "fetchArrives" /\ UNCHANGED clock
    /\ UNCHANGED <<searchVars, timerVars, keyVars, insightVars, mounted>>

\* fetchCryptoData from the answer of fetch() to the end of its finally block
fetchArrives(f, resp) ==
    /\ f \in fetches
    /\ fetches' = fetches \ {f}
    /\ IF ThrownMessage(resp) = Null
       THEN /\ cryptos' = SetState(cryptos, resp.data)
            /\ UNCHANGED error
       ELSE /\ error' = SetState(error, Some(FetchErrorText(ThrownMessage(resp)[1])))
            /\ UNCHANGED cryptos
    /\ loading' = SetState(loading, FALSE)
    /\ lastArrival' = Some(Arrival(f, resp))
    /\ lastEvent' = "fetchArrives" /\ UNCHANGED clock
    /\ UNCHANGED <<fetchCount, searchVars, timerVars, keyVars, insightVars, mounted>>

(***************************************************************************)
(* RefreshScheduler: the refresh effect and its interval                   *)
(***************************************************************************)
\* mutant: the interval is never cancelled
clearIntervalNoop(ts, id) == ts

clearInterval(ts, id) == { t \in ts : t.id # id }

setInterval(ts, id, key) == ts \cup {[id |-> id, key |-> key]}

\* mutant: the callback keeps the key of the previous render
StaleClosureKey(k) == apiKey

\* useCallback(..., [apiKey]): the key in the closure of the fetchCryptoData made
\* by a render whose apiKey is k
ClosureKey(k) == k

\* the effect's cleanup followed by its body, after a render whose apiKey is k:
\* clearInterval(intervalId); fetchCryptoData(); setInterval(fetchCryptoData, 60000)
rerunRefreshEffect(k) ==
    /\ timerCount < MaxTimers
    /\ fetchCryptoData(ClosureKey(k))
    /\ timerCount' = timerCount + 1
    /\ clearCalls' = [clearCalls EXCEPT ![timerCount] = @ + 1]
    /\ timers' = setInterval(clearInterval(timers, timerCount),
                             timerCount + 1, ClosureKey(k))
    /\ due' = clock + RefreshPeriod

\* the interval fires: fetchCryptoData of the render that scheduled it
tick ==
    /\ \E t \in timers : fetchCryptoData(t.key)
    /\ lastEvent' = "tick" /\ UNCHANGED clock
    /\ UNCHANGED <<searchVars, timerVars, keyVars, insightVars, mounted>>

\* mutant: the callback runs once, as with setTimeout
timedTickOnce ==
    /\ \E t \in timers : due = clock /\ fetchCryptoData(t.key)
    /\ timers' = {}
    /\ lastEvent' = "tick"
    /\ UNCHANGED <<clock, due, timerCount, clearCalls,
                   searchVars, keyVars, insightVars, mounted>>

\* the interval fires when its period has elapsed, and is due again a period later
timedTick ==
    /\ \E t \in timers : due = clock /\ fetchCryptoData(t.key)
    /\ due' = due + RefreshPeriod
    /\ lastEvent' = "tick"
    /\ UNCHANGED <<clock, timers, timerCount, clearCalls,
                   searchVars, keyVars, insightVars, mounted>>

\* time passes, up to the moment the interval is due; a due callback runs first
advance ==
    /\ clock < MaxClock
    /\ ~(timers # {} /\ due = clock)
    /\ clock' = IF timers # {} THEN Min(clock + ClockStep, due) ELSE clock + ClockStep
    /\ lastEvent' = "advance"
    /\ UNCHANGED <<searchVars, fetchVars, timerVars, keyVars, insightVars, mounted>>

\* mutant: the effect returns no cleanup
unmountNoCleanup ==
    /\ mounted
    /\ mounted' = FALSE
    /\ lastEvent' = "unmount" /\ UNCHANGED clock
    /\ UNCHANGED <<timerVars, searchVars, fetchVars, keyVars, insightVars>>

\* the component unmounts: the cleanups of both effects run
unmount ==
    /\ mounted
    /\ mounted' = FALSE
    /\ timers' = clearInterval(timers, timerCount)
    /\ clearCalls' = [clearCalls EXCEPT ![timerCount] = @ + 1]
    /\ lastEvent' = "unmount" /\ UNCHANGED clock
    /\ UNCHANGED <<timerCount, due, searchVars, fetchVars, keyVars, insightVars>>

(***************************************************************************)
(* API settings panel                                                      *)
(***************************************************************************)
\* {showApiKeyInput && (!apiKey || !geminiApiKey) && ( ... the two inputs ... )}
KeyPanelRendered == showApiKeyInput /\ (apiKey = "" \/ geminiApiKey = "")

toggleApiKeyInput ==
    /\ mounted
    /\ showApiKeyInput' = ~showApiKeyInput
    /\ lastEvent' = "toggleApiKeyInput" /\ UNCHANGED clock
    /\ UNCHANGED <<apiKey, geminiApiKey, localStorage,
                   searchVars, fetchVars, timerVars, insightVars, mounted>>

\* localStorage.setItem(`coinledger_${key}`, value)
saveApiKey(store, key, value) == [store EXCEPT ![key] = Some(value)]

\* onChange of the CoinGecko key input
apiKeyChange(value) ==
    /\ mounted /\ KeyPanelRendered
    /\ value # apiKey
    /\ apiKey' = value
    /\ localStorage' = saveApiKey(localStorage, "coinledger_apiKey", value)
    /\ rerunRefreshEffect(value)
    /\ lastEvent' = "apiKeyChange" /\ UNCHANGED clock
    /\ UNCHANGED <<geminiApiKey, showApiKeyInput, searchVars, insightVars, mounted>>

\* onChange of the Gemini key input
geminiApiKeyChange(value) ==
    /\ mounted /\ KeyPanelRendered
    /\ value # geminiApiKey
    /\ geminiApiKey' = value
    /\ localStorage' = saveApiKey(localStorage, "coinledger_geminiApiKey", value)
    /\ lastEvent' = "geminiApiKeyChange" /\ UNCHANGED clock
    /\ UNCHANGED <<apiKey, showApiKeyInput,
                   searchVars, fetchVars, timerVars, insightVars, mounted>>

\* "Clear All Keys" (header, both keys set) or "Clear All Saved API Keys" (panel)
clearAllApiKeys ==
    /\ mounted
    /\ \/ apiKey # "" /\ geminiApiKey # ""
       \/ KeyPanelRendered /\ (apiKey # "" \/ geminiApiKey # "")
    /\ localStorage' = [coinledger_apiKey |-> Null, coinledger_geminiApiKey |-> Null]
    /\ apiKey' = ""
    /\ geminiApiKey' = ""
    /\ showApiKeyInput' = FALSE
    /\ IF apiKey # ""
       THEN rerunRefreshEffect("")
       ELSE UNCHANGED <<fetchVars, timerVars>>
    /\ lastEvent' = "clearAllApiKeys" /\ UNCHANGED clock
    /\ UNCHANGED <<searchVars, insightVars, mounted>>

\* the Apply button, or Enter in the CoinGecko key input
applyApiKey ==
    /\ mounted /\ KeyPanelRendered
    /\ fetchCryptoData(ClosureKey(apiKey))
    /\ lastEvent' = "apply" /\ UNCHANGED clock
    /\ UNCHANGED <<searchVars, timerVars, keyVars, insightVars, mounted>>

\* the Try Again button of the error panel
tryAgain ==
    /\ mounted /\ ~loading /\ error # Null
    /\ fetchCryptoData(ClosureKey(apiKey))
    /\ lastEvent' = "tryAgain" /\ UNCHANGED clock
    /\ UNCHANGED <<searchVars, timerVars, keyVars, insightVars, mounted>>


(***************************************************************************)
(* InsightClient: getCryptoInsight                                         *)
(***************************************************************************)
\* the four templates, each the text that follows ${cryptoName}
FallbackTail(i) ==
    CASE i = 0 -> " is a prominent cryptocurrency in the digital asset market. It continues to attract attention from investors and traders worldwide."
      [] i = 1 -> " represents a significant player in the blockchain ecosystem. Its performance often reflects broader market trends in the crypto space."
      [] i = 2 -> " has established itself as a key digital asset with growing adoption and market presence."
      [] i = 3 -> " continues to evolve in the competitive cryptocurrency landscape, offering unique value propositions to its community."

\* fallbackInsights[i] for cryptoName; undefined outside the array
FallbackInsight(cryptoName, i) ==
    IF i \in 0..(NumFallbacks - 1) THEN Some(cryptoName \o <<FallbackTail(i)>>) ELSE Null

\* mutant: the index is rounded up as well as down
RandomIndexesRounded == 0..NumFallbacks

\* the values of Math.floor(Math.random() * fallbackInsights.length)
RandomIndexes == 0..(NumFallbacks - 1)

\* What the generative-text service may answer. rejects: fetch() or
\* response.json() fails; candidates: the member of that name of the parsed
\* body, each level of candidates[0].content.parts[0].text optional.
Part(text) == [text |-> text]
Candidate(content) == [content |-> content]
Content(parts) == [parts |-> parts]
InsightResponse(rej, cands) == [rejects |-> rej, candidates |-> cands]

GeneratedInsight ==
    InsightResponse(FALSE, Some(<<Candidate(Some(Content(Some(<<Part(Some(<<"generated text">>))>>))))>>))
InsightResponses ==
    { GeneratedInsight,
      InsightResponse(TRUE, Null),
      InsightResponse(FALSE, Null),
      InsightResponse(FALSE, Some(<< >>)),
      InsightResponse(FALSE, Some(<<Candidate(Null)>>)),
      InsightResponse(FALSE, Some(<<Candidate(Some(Content(Null)))>>)),
      InsightResponse(FALSE, Some(<<Candidate(Some(Content(Some(<< >>))))>>)),
      InsightResponse(FALSE, Some(<<Candidate(Some(Content(Some(<<Part(Null)>>))))>>)) }

\* result.candidates && result.candidates.length > 0 && result.candidates[0].content &&
\* result.candidates[0].content.parts && result.candidates[0].content.parts.length > 0
HasParts(result) ==
    /\ result.candidates # Null
    /\ Len(result.candidates[1]) > 0
    /\ result.candidates[1][1].content # Null
    /\ result.candidates[1][1].content[1].parts # Null
    /\ Len(result.candidates[1][1].content[1].parts[1]) > 0

\* result.candidates[0].content.parts[0].text
FirstText(result) == result.candidates[1][1].content[1].parts[1][1].text

Insight(name, text) == Some([name |-> name, text |-> text])

\* getCryptoInsight(cryptoName) up to its return (no key) or to `await fetch(...)`
getCryptoInsight(cryptoName) ==
    /\ lastInsightName' = cryptoName
    /\ burstResolved' = IF insightReqs = {} THEN 0 ELSE burstResolved
    /\ insightError' = Null
    /\ IF geminiApiKey = ""
       THEN /\ \E i \in RandomIndexes :
                 llmInsight' = Insight(cryptoName, FallbackInsight(cryptoName, i))
            /\ isInsightLoading' = FALSE
            /\ UNCHANGED <<insightReqs, insightCount>>
       ELSE /\ insightCount < MaxInsightReqs
            /\ llmInsight' = Null
            /\ isInsightLoading' = TRUE
            /\ insightCount' = insightCount + 1
            /\ insightReqs' = insightReqs \cup {[id |-> insightCount + 1, name |-> cryptoName]}

\* mutant: there is no finally block; only the success path clears the flag
insightArrivesNoFinally(r, resp) ==
    /\ r \in insightReqs
    /\ insightReqs' = insightReqs \ {r}
    /\ IF resp.rejects
       THEN /\ insightError' =
                 SetState(insightError, Some(<<"Failed to get insight: ", "Failed to fetch", ".">>))
            /\ UNCHANGED <<llmInsight, isInsightLoading>>
       ELSE IF HasParts(resp)
       THEN /\ llmInsight' = SetState(llmInsight, Insight(r.name, FirstText(resp)))
            /\ isInsightLoading' = SetState(isInsightLoading, FALSE)
            /\ UNCHANGED insightError
       ELSE /\ insightError' =
                 SetState(insightError, Some(<<"Could not generate insight. Please try again.">>))
            /\ UNCHANGED <<llmInsight, isInsightLoading>>
    /\ burstResolved' = burstResolved + 1
    /\ lastEvent' = "insightArrives" /\ UNCHANGED clock
    /\ UNCHANGED <<insightCount, lastInsightName,
                   searchVars, fetchVars, timerVars, keyVars, mounted>>

\* getCryptoInsight from the answer of fetch() to the end of its finally block
insightArrives(r, resp) ==
    /\ r \in insightReqs
    /\ insightReqs' = insightReqs \ {r}
    /\ IF resp.rejects
       THEN /\ insightError' =
                 SetState(insightError, Some(<<"Failed to get insight: ", "Failed to fetch", ".">>))
            /\ UNCHANGED llmInsight
       ELSE IF HasParts(resp)
       THEN /\ llmInsight' = SetState(llmInsight, Insight(r.name, FirstText(resp)))
            /\ UNCHANGED insightError
       ELSE /\ insightError' =
                 SetState(insightError, Some(<<"Could not generate insight. Please try again.">>))
            /\ UNCHANGED llmInsight
    /\ isInsightLoading' = SetState(isInsightLoading, FALSE)
    /\ burstResolved' = burstResolved + 1
    /\ lastEvent' = "insightArrives" /\ UNCHANGED clock
    /\ UNCHANGED <<insightCount, lastInsightName,
                   searchVars, fetchVars, timerVars, keyVars, mounted>>

\* the cards are rendered: !loading && !error && filteredCryptos.length > 0
CardsRendered == ~loading /\ error = Null /\ Len(filteredCryptos) > 0

\* "Get AI Insight" on the card of filteredCryptos[index]
cardInsight(index) ==
    /\ mounted /\ CardsRendered
    /\ index \in 1..Len(filteredCryptos)
    /\ getCryptoInsight(filteredCryptos[index].name)
    /\ lastEvent' = "cardInsight" /\ UNCHANGED clock
    /\ UNCHANGED <<searchVars, fetchVars, timerVars, keyVars, mounted>>

\* "Test & Get Insight", or Enter in the Gemini key input
testInsight ==
    /\ mounted /\ KeyPanelRendered
    /\ getCryptoInsight(Bitcoin.name)
    /\ lastEvent' = "testInsight" /\ UNCHANGED clock
    /\ UNCHANGED <<searchVars, fetchVars, timerVars, keyVars, mounted>>

\* the close buttons of the insight modal: setLlmInsight(null)
closeInsight ==
    /\ mounted /\ llmInsight # Null
    /\ llmInsight' = Null
    /\ lastEvent' = "closeInsight" /\ UNCHANGED clock
    /\ UNCHANGED <<isInsightLoading, insightError, insightReqs, insightCount,
                   lastInsightName, burstResolved, searchVars, fetchVars, timerVars, keyVars, mounted>>

(***************************************************************************)
(* Specifications                                                          *)
(***************************************************************************)
Keys == {"ArrowDown", "ArrowUp", "Enter", "Escape"}

\* the search surface, with the asset list refreshed underneath it
SearchNext ==
    \/ \E q \in Queries : handleSearchChange(q)
    \/ onFocus
    \/ \E k \in Keys : handleKeyDown(k)
    \/ \E i \in 0..(Len(searchSuggestions) - 1) : clickSuggestion(i)
    \/ \E i \in 0..(Len(searchSuggestions) - 1) : hoverSuggestion(i)
    \/ handleClickOutside
    \/ tick
    \/ \E f \in fetches, resp \in SuccessResponses \cup {RejectedResponse} : fetchArrives(f, resp)

\* no stored keys: the search surface does not read them
InitSearch ==
    /\ Init
    /\ localStorage = [coinledger_apiKey |-> Null, coinledger_geminiApiKey |-> Null]

SpecSearch == InitSearch /\ [][SearchNext]_vars

\* the refresh lifecycle: keys, effect, interval, fetches, teardown
RefreshNext ==
    \/ toggleApiKeyInput
    \/ \E k \in ApiKeys : apiKeyChange(k)
    \/ clearAllApiKeys
    \/ applyApiKey
    \/ tryAgain
    \/ tick
    \/ \E f \in fetches, resp \in FetchResponses : fetchArrives(f, resp)
    \/ unmount

SpecRefresh == Init /\ [][RefreshNext]_vars

\* the refresh schedule against the clock, no key change: time passes, the
\* interval fires, the service answers with a list or not at all
ClockNext ==
    \/ advance
    \/ timedTick
    \/ \E f \in fetches, resp \in {OkResponse(PayloadPair), RejectedResponse} :
           fetchArrives(f, resp)
    \/ toggleApiKeyInput
    \/ unmount

SpecClock == Init /\ [][ClockNext]_vars

\* the failures of the market-data fetch: calls are started by the interval
\* and by Try Again and answered in every failing way, or with a list
FetchErrorsNext ==
    \/ tick
    \/ tryAgain
    \/ \E f \in fetches, resp \in ErrorMessageResponses \cup {OkResponse(PayloadPair)} :
           fetchArrives(f, resp)
    \/ unmount

SpecFetchErrors == Init /\ [][FetchErrorsNext]_vars

\* one answer of each kind the two clients tell apart
ExitPathFetchResponses ==
    { OkResponse(PayloadPair), RejectedResponse, OkUnparseable, ErrorResponse(TRUE, Null, Null) }
ExitPathInsightResponses ==
    { GeneratedInsight, InsightResponse(TRUE, Null), InsightResponse(FALSE, Null) }

\* the call with this id is answered
fetchReturns(id) ==
    \E f \in fetches, resp \in ExitPathFetchResponses : f.id = id /\ fetchArrives(f, resp)
insightReturns(id) ==
    \E r \in insightReqs, resp \in ExitPathInsightResponses : r.id = id /\ insightArrives(r, resp)

\* the calls of both clients from start to end: the fetch of the activation
\* and those of Try Again, the insight requests of the first card, with and
\* without an insight key
TerminationNext ==
    \/ tryAgain
    \/ \E id \in 1..MaxFetches : fetchReturns(id)
    \/ cardInsight(1)
    \/ \E id \in 1..MaxInsightReqs : insightReturns(id)
    \/ unmount

\* activation with no market-data key stored
InitTermination == Init /\ localStorage.coinledger_apiKey = Null

\* every outbound call eventually returns or fails
SpecTermination ==
    /\ InitTermination /\ [][TerminationNext]_vars
    /\ \A id \in 1..MaxFetches : WF_vars(fetchReturns(id))
    /\ \A id \in 1..MaxInsightReqs : WF_vars(insightReturns(id))

\* the insight lifecycle
InsightNext ==
    \/ toggleApiKeyInput
    \/ \E k \in GeminiKeys : geminiApiKeyChange(k)
    \/ clearAllApiKeys
    \/ \E i \in 1..2 : cardInsight(i)
    \/ testInsight
    \/ \E r \in insightReqs, resp \in InsightResponses : insightArrives(r, resp)
    \/ closeInsight
    \/ \E f \in fetches : fetchArrives(f, OkResponse(PayloadPair))
    \/ unmount

SpecInsight == Init /\ [][InsightNext]_vars


(***************************************************************************)
(* Properties                                                              *)
(***************************************************************************)
\* s contains q, letter case ignored
ContainsIgnoringCase(s, q) ==
    \E off \in 0..(Len(s) - Len(q)) :
        \A i \in 1..Len(q) : LowerChar(s[off + i]) = LowerChar(q[i])

AssetMatches(a, q) ==
    ContainsIgnoringCase(a.name, q) \/ ContainsIgnoringCase(a.symbol, q)

\* the positions of list whose asset matches q
MatchingPositions(list, q) == { j \in 1..Len(list) : AssetMatches(list[j], q) }

\* result is list restricted to its matching positions, in list's order
IsOrderedSelection(result, list, q) ==
    LET pos == MatchingPositions(list, q)
    IN  /\ Len(result) = Cardinality(pos)
        /\ \A j \in pos : result[Cardinality({ k \in pos : k <= j })] = list[j]

\* C1: filter(L, "") is L; for a non-empty Q, filter(L, Q) is exactly the
\* assets of L whose name or symbol contains Q case-insensitively, in L's
\* order and with none omitted.
C1_FilterContract ==
    /\ searchTerm = << >> => filteredCryptos = cryptos
    /\ searchTerm # << >> => IsOrderedSelection(filteredCryptos, cryptos, searchTerm)

C1_Witness ==
    /\ cryptos = PayloadPair
    /\ searchTerm = <<"b","c","h">>
    /\ filteredCryptos = <<BitcoinCash>>

\* C2: suggest(L, Q) has at most 8 entries and is the first
\* min(8, len(filter(L, Q))) entries of filter(L, Q); it is empty when Q is empty.
C2_SuggestContract ==
    LET filtered == filteredCryptos
        suggestions == searchSuggestions
    IN  /\ Len(suggestions) <= 8
        /\ searchTerm = << >> => suggestions = << >>
        /\ searchTerm # << >> =>
               suggestions = SubSeq(filtered, 1, Min(8, Len(filtered)))

C2_Witness ==
    /\ Len(filteredCryptos) > 8
    /\ Len(searchSuggestions) = 8

\* C3 (as claimed): in every reachable state the cursor is -1 or an index
\* 0..len-1 of the current suggestion list, hence -1 when that list is empty.
C3_CursorInRange ==
    \/ selectedSuggestionIndex = -1
    \/ selectedSuggestionIndex \in 0..(Len(searchSuggestions) - 1)

\* C4: a change of the market-data key while an interval is scheduled cancels
\* that interval with exactly one clearInterval call, starts exactly one fetch,
\* which carries the new key, and leaves exactly one new interval, whose
\* fetches (ticks) carry the new key too.
C4_KeyChangeRearms ==
    [][ /\ (apiKey' # apiKey /\ timers # {}) =>
              /\ \A t \in timers :
                    /\ t \notin timers'
                    /\ clearCalls[t.id] = 0
                    /\ clearCalls'[t.id] = 1
              /\ \A i \in 1..MaxTimers :
                    (\A t \in timers : t.id # i) => clearCalls'[i] = clearCalls[i]
              /\ \E f \in fetches' :
                    /\ fetches' \ fetches = {f}
                    /\ f.key = apiKey'
              /\ \E t \in timers' :
                    /\ timers' = {t}
                    /\ t \notin timers
                    /\ t.key = apiKey'
        /\ lastEvent' = "tick" =>
              /\ apiKey' = apiKey
              /\ \E f \in fetches' :
                    /\ fetches' \ fetches = {f}
                    /\ f.key = apiKey
      ]_vars

C4_Witness ==
    /\ lastEvent = "tick"
    /\ timerCount = 2
    /\ apiKey = "cg2"
    /\ clearCalls[1] = 1
    /\ \E f \in fetches : f.id = fetchCount /\ f.key = "cg2"

\* C5: at most one interval is scheduled at any time; every interval ever
\* started has been cancelled exactly once, except the newest one while the
\* component is mounted, which has not been cancelled.
C5_OneTimer ==
    /\ Cardinality(timers) <= 1
    /\ \A i \in 1..MaxTimers :
          IF i = timerCount /\ mounted
          THEN clearCalls[i] = 0 /\ (\E t \in timers : t.id = i)
          ELSE /\ clearCalls[i] = (IF i <= timerCount THEN 1 ELSE 0)
               /\ \A t \in timers : t.id # i

C5_Witness ==
    /\ lastEvent = "clearAllApiKeys"
    /\ timerCount = 3
    /\ Cardinality(timers) = 1

\* C6: from deactivation on, no interval is scheduled and no fetch is started.
C6_NoFetchAfterUnmount ==
    [][ ~mounted' =>
           /\ timers' = {}
           /\ fetchCount' = fetchCount
           /\ fetches' \subseteq fetches ]_vars

C6_Witness ==
    /\ ~mounted
    /\ timers = {}
    /\ lastEvent = "fetchArrives"
    /\ fetches # {}

FallbackTemplates == { FallbackTail(i) : i \in 0..3 }

\* C8: with no insight key, a request for name N starts no network call,
\* records no failure, and displays an insight named N whose text is N followed
\* by one of the fallback templates.
C8_FallbackInsight ==
    [][ (lastEvent' \in {"cardInsight", "testInsight"} /\ geminiApiKey = "") =>
           /\ insightReqs' = insightReqs
           /\ insightCount' = insightCount
           /\ insightError' = Null
           /\ llmInsight' # Null
           /\ llmInsight'[1].name = lastInsightName'
           /\ llmInsight'[1].text # Null
           /\ LET text == llmInsight'[1].text[1]
                  n == Len(lastInsightName')
              IN  /\ Len(text) = n + 1
                  /\ SubSeq(text, 1, n) = lastInsightName'
                  /\ text[n + 1] \in FallbackTemplates ]_vars

C8_Witness ==
    /\ lastEvent = "cardInsight"
    /\ geminiApiKey = ""
    /\ lastInsightName = BitcoinCash.name
    /\ llmInsight # Null
    /\ llmInsight[1].name = BitcoinCash.name
    /\ insightError = Null

\* C9 (as claimed): when the last of several overlapping insight requests
\* resolves, what is displayed is its outcome alone: an insight or a failure,
\* never a failure next to the insight of a request that resolved earlier (or
\* the reverse).
C9_LastResolveWins ==
    [][ (/\ mounted
         /\ lastEvent' = "insightArrives"
         /\ insightReqs' = {}
         /\ burstResolved' >= 2) =>
           (llmInsight' = Null) # (insightError' = Null) ]_vars

\* C10: with the suggestion list unchanged, ArrowDown never takes the cursor
\* past len-1 and leaves it at len-1 once there (no wrap to the top); ArrowUp
\* never takes it below -1 and leaves it at -1 once there (no wrap to the end).
C10_Saturation ==
    [][ LET len == Len(searchSuggestions)
            prev == selectedSuggestionIndex
        IN  /\ (lastEvent' = "ArrowDown" /\ prev <= len - 1) =>
                  /\ selectedSuggestionIndex' <= len - 1
                  /\ selectedSuggestionIndex' >= prev
                  /\ prev = len - 1 => selectedSuggestionIndex' = prev
            /\ lastEvent' = "ArrowUp" =>
                  /\ selectedSuggestionIndex' >= -1
                  /\ selectedSuggestionIndex' <= prev
                  /\ prev = -1 => selectedSuggestionIndex' = -1 ]_vars

C10_Witness ==
    /\ lastEvent = "ArrowDown"
    /\ showSuggestions
    /\ Len(searchSuggestions) = 2
    /\ selectedSuggestionIndex = 1


\* C11: Enter with the cursor at -1 changes neither the query nor the cursor
\* nor the visibility of the suggestions; Enter with the cursor on an existing
\* suggestion sets the query to that asset's name, hides the suggestions and
\* resets the cursor to -1.
C11_Confirm ==
    [][ lastEvent' = "Enter" =>
          LET suggestions == searchSuggestions
              i == selectedSuggestionIndex
          IN  /\ i = -1 =>
                    /\ searchTerm' = searchTerm
                    /\ selectedSuggestionIndex' = -1
                    /\ showSuggestions' = showSuggestions
              /\ (i >= 0 /\ i < Len(suggestions)) =>
                    /\ searchTerm' = suggestions[i + 1].name
                    /\ showSuggestions' = FALSE
                    /\ selectedSuggestionIndex' = -1 ]_vars

C11_Witness ==
    /\ lastEvent = "Enter"
    /\ searchTerm = BitcoinCash.name
    /\ ~inputFocused
    /\ ~showSuggestions
    /\ selectedSuggestionIndex = -1

\* C12 (as claimed): Escape and a pointer press outside the search surface
\* each end with the suggestions hidden and the cursor at -1, the query
\* unchanged; a second Escape then changes nothing (the handler returns at
\* once when the suggestions are hidden).
C12_CancelDismiss ==
    [][ lastEvent' \in {"Escape", "dismiss"} =>
           /\ showSuggestions' = FALSE
           /\ selectedSuggestionIndex' = -1
           /\ searchTerm' = searchTerm ]_vars

\* C18: an edit of the query sets the query to a new value, resets the cursor
\* to -1 and shows the suggestions exactly when the new query is non-empty,
\* whatever the cursor and the visibility were.
C18_QueryChanged ==
    [][ lastEvent' = "queryChanged" =>
           /\ searchTerm' \in Queries
           /\ searchTerm' # searchTerm
           /\ selectedSuggestionIndex' = -1
           /\ showSuggestions' = (searchTerm' # << >>) ]_vars

C18_Witness ==
    /\ lastEvent = "queryChanged"
    /\ searchTerm = <<"e","t","h">>
    /\ showSuggestions
    /\ selectedSuggestionIndex = -1
    /\ Len(searchSuggestions) = 1


\* C13: with no key change, one fetch is started on activation and one more
\* per elapsed period of 60 seconds while the dashboard is active, whatever
\* became of the earlier fetches: at any time the calls started so far are
\* one plus the number of whole periods elapsed (the call of a period that
\* ends this instant being started before time moves on).
C13_OnePerPeriod ==
    mounted =>
        /\ fetchCount = 1 + (clock \div RefreshPeriod) - (IF due = clock THEN 1 ELSE 0)
        /\ due = RefreshPeriod * ((clock \div RefreshPeriod) + (IF due = clock THEN 0 ELSE 1))

\* the second period has ended with the first two fetches still unanswered,
\* and the third fetch has been started
C13_Witness ==
    /\ mounted /\ clock >= 2 * RefreshPeriod /\ fetchCount = 3
    /\ Cardinality(fetches) = 3 /\ lastEvent = "tick"

\* C14: while the dashboard is active the asset list is the payload of the
\* last fetch that arrived successfully, and empty before any arrival: a
\* successful arrival replaces the list by its payload, whatever key the fetch
\* was started with and whatever arrived before it; a failed arrival, and
\* every other event, leaves the list as it is.
C14_LastWriteWins ==
    [][ mounted =>
          /\ cryptos' = IF lastEvent' = "fetchArrives" /\ lastArrival'[1].succeeded
                        THEN lastArrival'[1].data
                        ELSE cryptos
          /\ lastArrival' = Null => cryptos' = << >> ]_vars

\* a fetch started under a key that has since changed arrives with a list
\* after a later fetch has been answered, and its list is the one shown
C14_Witness ==
    /\ mounted /\ lastEvent = "fetchArrives" /\ lastArrival # Null
    /\ lastArrival[1].succeeded /\ lastArrival[1].late
    /\ lastArrival[1].data = PayloadOne /\ cryptos = PayloadOne /\ fetches = {}

\* the events that call fetchCryptoData after activation
FetchStarters == {"apiKeyChange", "clearAllApiKeys", "tick", "apply", "tryAgain"}

\* C15: a failed fetch starts no other fetch: a fetch is only ever started by
\* a key change, a tick of the interval, Apply or Try Again (the first one by
\* activation); an arrival starts none; once set, the error stays set until a
\* new fetch is started, and the interface keeps accepting events meanwhile.
C15_NoAutoRetry ==
    [][ /\ fetchCount' # fetchCount => lastEvent' \in FetchStarters
        /\ lastEvent' = "fetchArrives" => (fetchCount' = fetchCount /\ fetches' \subseteq fetches)
        /\ (mounted /\ error # Null /\ fetchCount' = fetchCount) => error' # Null
        /\ (mounted /\ error # Null) => ENABLED toggleApiKeyInput ]_vars

\* a fetch has failed, nothing is in flight, and the user has since used the
\* interface with the error still shown
C15_Witness ==
    /\ mounted /\ error # Null /\ fetches = {} /\ ~loading
    /\ lastEvent = "toggleApiKeyInput" /\ lastArrival # Null /\ ~lastArrival[1].succeeded

\* C19 (as claimed): while the dashboard is active, if the fetch that
\* completed last succeeded then no error is displayed.
C19_NoStaleError ==
    (mounted /\ lastArrival # Null /\ lastArrival[1].succeeded) => error = Null

\* C20 (as claimed): while the dashboard is active, loading is true whenever
\* a market-data fetch is in flight.
C20_LoadingWhileInFlight ==
    (mounted /\ fetches # {}) => loading

\* every element of candidates[0].content.parts[0].text is present in result
TextPresent(result) ==
    /\ result.candidates # Null
    /\ Len(result.candidates[1]) > 0
    /\ result.candidates[1][1].content # Null
    /\ result.candidates[1][1].content[1].parts # Null
    /\ Len(result.candidates[1][1].content[1].parts[1]) > 0
    /\ result.candidates[1][1].content[1].parts[1][1].text # Null

\* C16 (as claimed): with an insight key present and the dashboard active,
\* an answer in which any element of candidates[0].content.parts[0].text is
\* absent ends the request with the generic "Could not generate insight"
\* failure and displays no Insight, and an answer that fails at the transport
\* ends it with a failure that carries the underlying error message.
C16_InsightFailure ==
    [][ \A r \in insightReqs, resp \in InsightResponses :
          (mounted /\ insightArrives(r, resp)) =>
              /\ resp.rejects =>
                    /\ insightError' = Some(<<"Failed to get insight: ", "Failed to fetch", ".">>)
                    /\ llmInsight' = llmInsight
              /\ (~resp.rejects /\ ~TextPresent(resp)) =>
                    /\ insightError' = Some(<<"Could not generate insight. Please try again.">>)
                    /\ llmInsight' = llmInsight ]_vars

\* the displayed message (a sequence of text pieces) contains the text piece
HasPiece(message, piece) == piece = "" \/ \E i \in DOMAIN message : message[i] = piece

\* the error text the server provides: the "error" member of a parsed body,
\* else its "message" member, when one of them is a non-empty string
ServerText(resp) ==
    IF ~resp.parses THEN Null
    ELSE IF Truthy(resp.errorField) THEN resp.errorField
    ELSE IF Truthy(resp.messageField) THEN resp.messageField
    ELSE Null

\* C17 (as claimed): an answer with a non-success status, or with a body that
\* fails to parse, ends in a failure whose message contains the status code
\* and the server's error text when there is one, and the raw HTTP status
\* text whenever the server gives no error text.
C17_AsClaimed ==
    [][ \A f \in fetches, resp \in ErrorMessageResponses :
          (mounted /\ ~resp.rejects /\ fetchArrives(f, resp)) =>
              /\ error' # Null
              /\ HasPiece(error'[1], resp.status)
              /\ HasPiece(error'[1], IF ServerText(resp) # Null
                                     THEN ServerText(resp)[1]
                                     ELSE resp.statusText) ]_vars

\* C17 (amended): an answer with a non-success status ends in a failure
\* whose message contains the status code and: the server's error text when
\* there is one; the raw HTTP status text when the error body fails to parse
\* and the status text is not empty; the words "Unknown error" otherwise
\* (a parsed body with no error text, or no status text either). An answer
\* with a success status and a body that fails to parse ends in a failure
\* that carries the parser's message and not the status code.
C17_FailureMessage ==
    [][ \A f \in fetches, resp \in ErrorMessageResponses :
          (mounted /\ ~resp.rejects /\ fetchArrives(f, resp)) =>
              /\ error' # Null
              /\ ~resp.ok =>
                    /\ HasPiece(error'[1], resp.status)
                    /\ HasPiece(error'[1],
                           IF ServerText(resp) # Null THEN ServerText(resp)[1]
                           ELSE IF ~resp.parses /\ resp.statusText # "" THEN resp.statusText
                           ELSE "Unknown error")
                    /\ (resp.parses /\ ServerText(resp) = Null) =>
                           ~HasPiece(error'[1], resp.statusText)
              /\ resp.ok =>
                    /\ HasPiece(error'[1], "Unexpected end of JSON input")
                    /\ ~HasPiece(error'[1], resp.status) ]_vars

\* an error body that parses but has no error text has just been answered:
\* the panel shows the status code and "Unknown error"
C17_Witness ==
    /\ mounted /\ lastEvent = "fetchArrives" /\ error # Null
    /\ HasPiece(error[1], "429") /\ HasPiece(error[1], "Unknown error")
    /\ ~HasPiece(error[1], "Too Many Requests")

\* C21 (as claimed): while the dashboard is active, isInsightLoading is true
\* whenever an insight request is in flight.
C21_InsightLoadingWhileInFlight ==
    (mounted /\ insightReqs # {}) => isInsightLoading

\* C22 (as claimed): a displayed Insight and an InsightFailure are never
\* both set.
C22_InsightXorFailure ==
    ~(llmInsight # Null /\ insightError # Null)

\* C23: whenever the suggestions are hidden the cursor is -1: every event
\* that hides them (an edit to the empty query, confirm, pointer selection,
\* cancel, dismiss) leaves the cursor at -1, and no event moves the cursor
\* while they are hidden.
C23_HiddenMeansNoCursor ==
    /\ [](~showSuggestions => selectedSuggestionIndex = -1)
    /\ [][ ((showSuggestions /\ ~showSuggestions') => selectedSuggestionIndex' = -1)
            /\ (~showSuggestions => selectedSuggestionIndex' = selectedSuggestionIndex) ]_vars

\* a dismissal has just hidden a list of suggestions that is still there to
\* show, and the cursor is back at -1
C23_Witness ==
    /\ lastEvent = "dismiss" /\ ~showSuggestions /\ selectedSuggestionIndex = -1
    /\ Len(searchSuggestions) >= 2 /\ ~inputFocused

\* the call with this id is in flight
FetchInFlight(id) == \E f \in fetches : f.id = id
InsightInFlight(id) == \E r \in insightReqs : r.id = id

\* C24: if every outbound call eventually returns or fails, every started
\* market-data fetch and every started insight request eventually ends, and
\* ends with its loading flag set to false on every exit path: a list, an
\* HTTP or parse failure, an unexpected shape, a transport error, and the
\* fallback return of a request made without an insight key.
C24_Terminates ==
    /\ \A id \in 1..MaxFetches : FetchInFlight(id) ~> ~FetchInFlight(id)
    /\ \A id \in 1..MaxInsightReqs : InsightInFlight(id) ~> ~InsightInFlight(id)
    /\ [][ ((mounted /\ lastEvent' = "fetchArrives") => ~loading')
            /\ ((mounted /\ lastEvent' = "insightArrives") => ~isInsightLoading')
            /\ ((lastEvent' \in {"cardInsight", "testInsight"} /\ geminiApiKey = "") =>
                    (~isInsightLoading' /\ insightReqs' = insightReqs)) ]_vars

\* a fetch has failed and its retry has brought the list; two insight
\* requests made at once have both ended, one of them in a failure: nothing
\* is in flight and neither loading flag is set
C24_Witness ==
    /\ mounted /\ fetches = {} /\ insightReqs = {} /\ fetchCount >= 2 /\ insightCount = 2
    /\ burstResolved = 2 /\ insightError # Null /\ ~loading /\ ~isInsightLoading
    /\ lastEvent = "insightArrives"

=========================================================================
